---- MODULE Spec2Model ----
(***************************************************************************)
(* Model of linkedin_post.py: the search -> select -> generate -> publish  *)
(* -> history pipeline run by main(), with every network response and the  *)
(* process environment as nondeterministic inputs.                         *)
(*                                                                         *)
(* Texts that the code slices (the generated post, the selection reply)    *)
(* are sequences: a post is a sequence of one-character strings, a         *)
(* selection reply is a sequence of lexical tokens (whitespace, the        *)
(* code fence, the word json, and whole JSON documents).  Python dicts are  *)
(* records carrying the set of keys that are present.                      *)
(***************************************************************************)
EXTENDS Integers, Sequences, FiniteSets, TLC

VARIABLES
    pc,                \* position of the run inside main()
    outcome,           \* how main() ended ("running" while it has not)
    dry_run,           \* main's dry_run argument
    GROQ_API_KEY,      \* module constant read from the environment (line 32)
    env_access_token,  \* os.getenv("LINKEDIN_ACCESS_TOKEN")
    env_person_urn,    \* os.getenv("LINKEDIN_PERSON_URN")
    token_file,        \* linkedin_tokens.json
    history_file,      \* post_history.json
    now,               \* the clock read by datetime.now()
    all_results,       \* search_trending_topics: raw results of the feeds
    unique_results,    \* search_trending_topics: filtered results (before fallback)
    topics,            \* main: candidate list handed to the selector
    select_response,   \* HTTP response of the selection LLM call
    topic_data,        \* main: the TopicDecision
    generate_response, \* HTTP response of the generation LLM call
    post_content,      \* main: generated post
    userinfo_response, \* HTTP response of the identity lookup
    post_data,         \* body of the publish request
    publish_response,  \* HTTP response of the publish request
    result,            \* main: PublishResult
    calls,             \* network requests issued so far, in order
    history_writes,    \* number of save_json_file(POST_HISTORY_FILE, ...) calls
    initial_history,   \* history_file as it was when the program started
    appended           \* entries appended by save_to_history, in order

vars == << pc, outcome, dry_run, GROQ_API_KEY, env_access_token, env_person_urn,
           token_file, history_file, now, all_results, unique_results, topics,
           select_response, topic_data, generate_response, post_content,
           userinfo_response, post_data, publish_response, result, calls,
           history_writes, initial_history, appended >>

-----------------------------------------------------------------------------
(* Python values *)

\* None (also: an unset environment variable).
NONE == "<None>"

\* Truthiness of an optional string: None and "" are falsy.
Falsy(x) == x = NONE \/ x = ""

Min(a, b) == IF a < b THEN a ELSE b

\* s[:n]
Take(s, n) == SubSeq(s, 1, Min(n, Len(s)))

\* s[n:]
Drop(s, n) == SubSeq(s, n + 1, Len(s))

\* s[-n:]  (n > 0)
LastN(s, n) == SubSeq(s, Len(s) - Min(n, Len(s)) + 1, Len(s))

IsSpace(c) == c \in {" ", "\n"}

RECURSIVE lstrip(_)
lstrip(s) == IF s # << >> /\ IsSpace(Head(s)) THEN lstrip(Tail(s)) ELSE s

RECURSIVE rstrip(_)
rstrip(s) == IF s # << >> /\ IsSpace(s[Len(s)])
             THEN rstrip(SubSeq(s, 1, Len(s) - 1))
             ELSE s

\* str.strip()
strip(s) == rstrip(lstrip(s))

\* str.lower() on the titles the model uses.
lower(t) ==
    CASE t = "Kotlin" -> "kotlin"
      [] t = "KOTLIN" -> "kotlin"
      [] t = "Compose" -> "compose"
      [] OTHER -> t

-----------------------------------------------------------------------------
(* Files *)

\* A stored file: whether it exists, whether its text is valid JSON, and the value
\* it parses to.  type: the JSON type of the value; keys: what Python's "in"
\* finds in it (the keys of an object, the elements of an array, the substrings
\* of a string; a number has none and "in" raises TypeError on it).

\* load_json_file: {} when the file does not exist; json.load raises when its
\* text is not valid JSON; else the parsed value, whatever its type.
load_json_file(file, empty_dict) ==
    IF ~file.exists THEN [raised |-> FALSE, value |-> empty_dict]
    ELSE IF ~file.valid THEN [raised |-> TRUE, value |-> empty_dict]
    ELSE [raised |-> FALSE, value |-> file.data]

\* {} read as tokens.
NoTokens == [type |-> "object", keys |-> {}, access_token |-> NONE, person_urn |-> NONE]

\* [] read as tokens.
EmptyTokenArray ==
    [type |-> "array", keys |-> {}, access_token |-> NONE, person_urn |-> NONE]

\* {} read as a history.  posts_is_list: whether the value under "posts" is a list.
EmptyHistory == [type |-> "object", keys |-> {}, posts |-> << >>, posts_is_list |-> TRUE]

\* load_linkedin_tokens: both environment variables, else the token file.
load_linkedin_tokens(access_token, person_urn, file) ==
    IF ~Falsy(access_token) /\ ~Falsy(person_urn)
    THEN [raised |-> FALSE,
          value |-> [type |-> "object", keys |-> {"access_token", "person_urn"},
                     access_token |-> access_token, person_urn |-> person_urn]]
    ELSE load_json_file(file, NoTokens)

\* ["access_token"] read as tokens.
TokenNameArray ==
    [type |-> "array", keys |-> {"access_token"}, access_token |-> NONE,
     person_urn |-> NONE]

\* The JSON string "access_token" read as tokens.
TokenNameString ==
    [type |-> "string", keys |-> {"access_token"}, access_token |-> NONE,
     person_urn |-> NONE]

\* null read as tokens.
NullTokens == [type |-> "null", keys |-> {}, access_token |-> NONE, person_urn |-> NONE]

\* The number 1 read as tokens.
NumberTokens ==
    [type |-> "number", keys |-> {}, access_token |-> NONE, person_urn |-> NONE]

\* not tokens: None, and an empty object, array or string (the one number of
\* the model, 1, is truthy).
tokens_falsy(tokens) ==
    \/ tokens.type = "null"
    \/ tokens.type \in {"object", "array", "string"} /\ tokens.keys = {}

\* The test raises TypeError when it reaches "access_token" not in tokens on a
\* value that is no container.
tokens_test_raises(tokens) == ~tokens_falsy(tokens) /\ tokens.type = "number"

\* The test: not tokens or "access_token" not in tokens, where it does not raise.
tokens_missing(tokens) == tokens_falsy(tokens) \/ "access_token" \notin tokens.keys

-----------------------------------------------------------------------------
(* Topic Source, Deduplicator and Fallback Catalog: search_trending_topics *)

\* SEARCH_QUERIES[:3]: the number of feeds queried.
QUERIES_USED == 3

\* root.findall(".//item")[:3]: entries read from one feed.
ITEMS_PER_QUERY == 3

\* unique_results[:5]
MAX_TOPICS == 5

\* The dict appended for one feed item whose <title> element exists; the other
\* elements are absent, so body, source and date take their defaults.
result_of(title) ==
    [title |-> title, body |-> "", source |-> "Google News", date |-> "recent"]

\* The loop over the items of one parsed feed: an item without <title> is skipped,
\* a <title> without text gives "" (item.title = "" stands for both).
RECURSIVE parse_items(_)
parse_items(items) ==
    IF items = << >> THEN << >>
    ELSE (IF Head(items).has_title THEN << result_of(Head(items).title) >> ELSE << >>)
         \o parse_items(Tail(items))

\* One iteration of the loop over the queries: an exception or a status other than
\* 200 contributes nothing.
fetch_results(response) ==
    IF response.raised \/ response.status # 200 THEN << >>
    ELSE parse_items(Take(response.items, ITEMS_PER_QUERY))

RECURSIVE gather_results(_)
gather_results(feeds) ==
    IF feeds = << >> THEN << >>
    ELSE fetch_results(Head(feeds)) \o gather_results(Tail(feeds))

title_key_case_sensitive(title) == title

\* title_lower = r["title"].lower()
title_key(title) == lower(title)

\* The duplicate filter (lines 192-199).
RECURSIVE remove_duplicates(_, _, _)
remove_duplicates(results, seen_titles, unique) ==
    IF results = << >> THEN unique
    ELSE LET r == Head(results)
             title_lower == title_key(r.title)
         IN  IF title_lower \notin seen_titles /\ r.title # ""
             THEN remove_duplicates(Tail(results), seen_titles \cup {title_lower},
                                    Append(unique, r))
             ELSE remove_duplicates(Tail(results), seen_titles, unique)

get_fallback_topics ==
    << [title |-> "Kotlin 2.0 and the future of Android development",
        body |-> "Kotlin 2.0 brings major improvements to the language including better performance and new features",
        source |-> "Android Weekly", date |-> "recent"],
       [title |-> "Jetpack Compose performance optimization techniques",
        body |-> "Best practices for building smooth 60fps UIs with Compose including recomposition optimization",
        source |-> "Android Developers Blog", date |-> "recent"],
       [title |-> "Android 15 new features for developers",
        body |-> "Latest Android version brings new APIs and capabilities for app developers",
        source |-> "Google", date |-> "recent"],
       [title |-> "Health Connect SDK integration patterns",
        body |-> "Building health and fitness apps with Google Health Connect SDK best practices",
        source |-> "Android Health", date |-> "recent"],
       [title |-> "Modern Android app architecture with MVI pattern",
        body |-> "Moving beyond MVVM to Model-View-Intent for better state management",
        source |-> "ProAndroidDev", date |-> "recent"] >>

with_fallback_never(unique) == unique

\* if not unique_results: unique_results = get_fallback_topics()
with_fallback(unique) == IF unique = << >> THEN get_fallback_topics ELSE unique

\* return unique_results[:5]
limit_topics(unique) == Take(unique, MAX_TOPICS)

\* search_trending_topics on the responses of the feeds, one per query: the raw
\* results, the filtered results and the returned list.
search_trending_topics(feeds) ==
    LET raw == gather_results(feeds)
        unique == remove_duplicates(raw, {}, << >>)
    IN  [all_results |-> raw, unique_results |-> unique,
         topics |-> limit_topics(with_fallback(unique))]

-----------------------------------------------------------------------------
(* LLM Client: call_groq_api *)

\* call_groq_api on the endpoint's response: the reply's content on 200,
\* an exception otherwise.
call_groq_api(response) ==
    IF response.status = 200
    THEN [raised |-> FALSE, content |-> response.content]
    ELSE [raised |-> TRUE, content |-> << >>]

-----------------------------------------------------------------------------
(* Topic Selector: pick_best_topic *)

\* The Markdown code fence (three backquote characters), one token.
FENCE == "<fence>"

\* JSON documents a selection reply may hold, each one token of the reply.
J_FULL == "{\"selected_topic\": \"Compose\", \"why_selected\": \"hot\", \"post_angle\": \"my view\", \"post_type\": \"hot_take\"}"
J_NO_TYPE == "{\"selected_topic\": \"Compose\", \"post_angle\": \"my view\"}"
J_NO_ANGLE == "{\"selected_topic\": \"Compose\"}"
J_NUM_TOPIC == "{\"selected_topic\": 7, \"why_selected\": \"hot\", \"post_angle\": \"my view\", \"post_type\": \"hot_take\"}"
J_STRING == "\"not json\""
J_ARRAY == "[\"Compose\"]"

NoDecision ==
    [keys |-> {}, selected_topic |-> NONE, why_selected |-> NONE,
     post_angle |-> NONE, post_type |-> NONE]

DecisionKeys == {"selected_topic", "why_selected", "post_angle", "post_type"}

JsonDecodeError ==
    [ok |-> FALSE, type |-> "none", topic_is_str |-> FALSE, dict |-> NoDecision]

\* json.loads on one token: the parsed value (its JSON type; for an object its
\* keys and values), or JSONDecodeError for a token that is no JSON document.
json_document(token) ==
    CASE token = J_FULL ->
           [ok |-> TRUE, type |-> "object", topic_is_str |-> TRUE,
            dict |-> [keys |-> DecisionKeys, selected_topic |-> "Compose",
                      why_selected |-> "hot", post_angle |-> "my view",
                      post_type |-> "hot_take"]]
      [] token = J_NO_TYPE ->
           [ok |-> TRUE, type |-> "object", topic_is_str |-> TRUE,
            dict |-> [keys |-> {"selected_topic", "post_angle"},
                      selected_topic |-> "Compose", why_selected |-> NONE,
                      post_angle |-> "my view", post_type |-> NONE]]
      [] token = J_NO_ANGLE ->
           [ok |-> TRUE, type |-> "object", topic_is_str |-> TRUE,
            dict |-> [keys |-> {"selected_topic"},
                      selected_topic |-> "Compose", why_selected |-> NONE,
                      post_angle |-> NONE, post_type |-> NONE]]
      [] token = J_NUM_TOPIC ->
           [ok |-> TRUE, type |-> "object", topic_is_str |-> FALSE,
            dict |-> [keys |-> DecisionKeys, selected_topic |-> "7",
                      why_selected |-> "hot", post_angle |-> "my view",
                      post_type |-> "hot_take"]]
      [] token = J_STRING ->
           [ok |-> TRUE, type |-> "string", topic_is_str |-> FALSE, dict |-> NoDecision]
      [] token = J_ARRAY ->
           [ok |-> TRUE, type |-> "array", topic_is_str |-> FALSE, dict |-> NoDecision]
      [] OTHER -> JsonDecodeError

\* json.loads on a text: exactly one JSON document, nothing before or after it.
json_loads(text) == IF Len(text) = 1 THEN json_document(text[1]) ELSE JsonDecodeError

\* The clean-up before parsing (lines 290-298): strip, drop a leading fence
\* followed by json, then a leading fence, then a trailing fence, strip again.
clean_response(response) ==
    LET r1 == strip(response)
        r2 == IF Len(r1) >= 2 /\ r1[1] = FENCE /\ r1[2] = "json" THEN Drop(r1, 2) ELSE r1
        r3 == IF Len(r2) >= 1 /\ r2[1] = FENCE THEN Drop(r2, 1) ELSE r2
        r4 == IF Len(r3) >= 1 /\ r3[Len(r3)] = FENCE THEN SubSeq(r3, 1, Len(r3) - 1) ELSE r3
    IN  strip(r4)

\* The decision returned when json.loads raises JSONDecodeError.
default_decision(topic_list) ==
    [keys |-> DecisionKeys, selected_topic |-> topic_list[1].title,
     why_selected |-> "First trending topic",
     post_angle |-> "Share thoughts on this trend",
     post_type |-> "trend_analysis"]

\* The try block of pick_best_topic on the reply's content.  Only
\* json.JSONDecodeError is caught: indexing a parsed value that is no dict
\* (TypeError), a missing "selected_topic" or "post_angle" (KeyError) and slicing
\* a topic that is no string (TypeError) all raise out of the function.
parse_decision(topic_list, content) ==
    LET parsed == json_loads(clean_response(content))
    IN  IF ~parsed.ok THEN [raised |-> FALSE, value |-> default_decision(topic_list)]
        ELSE IF parsed.type # "object" THEN [raised |-> TRUE, value |-> NoDecision]
        ELSE IF "selected_topic" \notin parsed.dict.keys
             THEN [raised |-> TRUE, value |-> NoDecision]
        ELSE IF ~parsed.topic_is_str THEN [raised |-> TRUE, value |-> NoDecision]
        ELSE IF "post_angle" \notin parsed.dict.keys
             THEN [raised |-> TRUE, value |-> NoDecision]
        ELSE [raised |-> FALSE, value |-> parsed.dict]

pick_best_topic_swallow_http(topic_list, response) ==
    IF response.status # 200
    THEN [raised |-> FALSE, value |-> default_decision(topic_list)]
    ELSE parse_decision(topic_list, response.content)

\* pick_best_topic on the LLM endpoint's response.
pick_best_topic(topic_list, response) ==
    LET completion == call_groq_api(response)
    IN  IF completion.raised THEN [raised |-> TRUE, value |-> NoDecision]
        ELSE parse_decision(topic_list, completion.content)

-----------------------------------------------------------------------------
(* Content Generator: generate_post *)

QUOTE == "\""

\* The clean-up of the generated text (lines 332-334).
clean_post(raw) ==
    LET p == strip(raw)
    IN  IF p # << >> /\ Head(p) = QUOTE /\ p[Len(p)] = QUOTE
        THEN SubSeq(p, 2, Len(p) - 1)
        ELSE p

\* generate_post: formatting the prompt reads the three keys of the decision
\* (KeyError before any request when one is absent); then one LLM call.
\* called: whether the request was issued.
generate_post(decision, response) ==
    IF ~({"selected_topic", "post_angle", "post_type"} \subseteq decision.keys)
    THEN [raised |-> TRUE, called |-> FALSE, content |-> << >>]
    ELSE LET completion == call_groq_api(response)
         IN  IF completion.raised
             THEN [raised |-> TRUE, called |-> TRUE, content |-> << >>]
             ELSE [raised |-> FALSE, called |-> TRUE,
                   content |-> clean_post(completion.content)]

-----------------------------------------------------------------------------
(* Publisher: post_to_linkedin *)

NoUserinfoResponse == [status |-> 0, has_sub |-> FALSE, sub |-> NONE]

NoPublishResponse ==
    [status |-> 0, has_restli_id |-> FALSE, restli_id |-> NONE, text |-> NONE]

NoPostData == [author |-> NONE, text |-> << >>]

NoResult == [success |-> FALSE, post_id |-> NONE, error |-> NONE]

\* f"urn:li:person:{user_info['sub']}" on the subjects the model uses.
person_urn_of(sub) ==
    CASE sub = "abc123" -> "urn:li:person:abc123"
      [] sub = "" -> "urn:li:person:"

need_lookup_always(person_urn) == TRUE

\* if not person_urn
need_lookup(person_urn) == Falsy(person_urn)

is_created_any_2xx(status) == status \in 200..299

\* if response.status_code == 201
is_created(status) == status = 201

\* The PublishResult built from the publish endpoint's response (lines 417-425).
publish_result(response) ==
    IF is_created(response.status)
    THEN [success |-> TRUE,
          post_id |-> IF response.has_restli_id THEN response.restli_id ELSE "Unknown",
          error |-> NONE]
    ELSE [success |-> FALSE, post_id |-> NONE, error |-> response.text]

\* post_to_linkedin after loading the tokens, on the responses of the two
\* endpoints.
post_to_linkedin_loaded(content, tokens, userinfo, publish) ==
    IF tokens_test_raises(tokens)
    THEN [raised |-> TRUE, requests |-> << >>, result |-> NoResult,
          userinfo |-> NoUserinfoResponse, post_data |-> NoPostData,
          publish |-> NoPublishResponse]
    ELSE IF tokens_missing(tokens)
    THEN [raised |-> FALSE, requests |-> << >>,
          result |-> [success |-> FALSE, post_id |-> NONE, error |-> "No tokens"],
          userinfo |-> NoUserinfoResponse, post_data |-> NoPostData,
          publish |-> NoPublishResponse]
    \* tokens["access_token"] raises TypeError on a list and on a str
    ELSE IF tokens.type # "object"
    THEN [raised |-> TRUE, requests |-> << >>, result |-> NoResult,
          userinfo |-> NoUserinfoResponse, post_data |-> NoPostData,
          publish |-> NoPublishResponse]
    ELSE LET known_urn == IF "person_urn" \in tokens.keys THEN tokens.person_urn ELSE NONE
             lookup == need_lookup(known_urn)
         IN  IF lookup /\ userinfo.status # 200
             THEN [raised |-> FALSE, requests |-> << "userinfo" >>,
                   result |-> [success |-> FALSE, post_id |-> NONE,
                               error |-> "Failed to get user URN"],
                   userinfo |-> userinfo, post_data |-> NoPostData,
                   publish |-> NoPublishResponse]
             ELSE IF lookup /\ ~userinfo.has_sub
             THEN [raised |-> TRUE, requests |-> << "userinfo" >>,
                   result |-> NoResult,
                   userinfo |-> userinfo, post_data |-> NoPostData,
                   publish |-> NoPublishResponse]
             ELSE [raised |-> FALSE,
                   requests |-> IF lookup THEN << "userinfo", "ugcPosts" >>
                                ELSE << "ugcPosts" >>,
                   result |-> publish_result(publish),
                   userinfo |-> IF lookup THEN userinfo ELSE NoUserinfoResponse,
                   post_data |-> [author |-> IF lookup THEN person_urn_of(userinfo.sub)
                                             ELSE known_urn,
                                  text |-> content],
                   publish |-> publish]

\* post_to_linkedin on the outcome of load_linkedin_tokens and the responses of
\* the two endpoints.  requests: the requests it issued, in order; a response
\* that was never asked for is reported as not received.
post_to_linkedin(content, loaded, userinfo, publish) ==
    IF loaded.raised
    THEN [raised |-> TRUE, requests |-> << >>, result |-> NoResult,
          userinfo |-> NoUserinfoResponse, post_data |-> NoPostData,
          publish |-> NoPublishResponse]
    ELSE post_to_linkedin_loaded(content, loaded.value, userinfo, publish)

-----------------------------------------------------------------------------
(* History Recorder: save_to_history *)

\* history["posts"][-50:]
HISTORY_KEEP == 50

\* post_content[:100]
PREVIEW_LEN == 100

keep_oldest(posts) == Take(posts, HISTORY_KEEP)

\* Keep last 50 posts only.
keep_recent(posts) == LastN(posts, HISTORY_KEEP)

\* The entry appended for one published post.
history_entry(topic, content, post_id, date) ==
    [date |-> date, topic |-> topic,
     post_preview |-> Take(content, PREVIEW_LEN) \o << ".", ".", "." >>,
     post_id |-> post_id]

\* save_to_history: whether it raised, and the history file after the call.
\* It raises, leaving the file as it was, when json.load fails, when the parsed
\* value is no dict (TypeError at the test or the assignment of "posts"), when
\* the value under "posts" is no list (AttributeError at append), and when the
\* file cannot be opened for writing.
save_to_history(file, topic, content, post_id, date) ==
    LET loaded == load_json_file(file, EmptyHistory)
        history == loaded.value
        posts == IF "posts" \notin history.keys THEN << >> ELSE history.posts
        grown == Append(posts, history_entry(topic, content, post_id, date))
    IN  IF \/ loaded.raised
           \/ history.type # "object"
           \/ ("posts" \in history.keys /\ ~history.posts_is_list)
           \/ ~file.writable
        THEN [raised |-> TRUE, file |-> file]
        ELSE [raised |-> FALSE,
              file |-> [exists |-> TRUE, valid |-> TRUE, writable |-> TRUE,
                        data |-> [type |-> "object",
                                  keys |-> history.keys \cup {"posts"},
                                  posts |-> keep_recent(grown),
                                  posts_is_list |-> TRUE]]]

-----------------------------------------------------------------------------
(* Inputs: the environment, the stored files and the responses of the services *)

ApiKeys == {NONE, "", "gsk_key"}

EnvAccessTokens == {NONE, "env_token"}

EnvPersonUrns == {NONE, "urn:li:person:env"}

NoTokenFile == [exists |-> FALSE, valid |-> FALSE, data |-> NoTokens]

\* A token file holding the given value.
token_file_of(value) == [exists |-> TRUE, valid |-> TRUE, data |-> value]

\* linkedin_tokens.json: absent, text that is not JSON, null, 1, [],
\* ["access_token"], "access_token", {}, {"access_token": null}, and objects
\* with either or both keys.
TokenFiles ==
    { NoTokenFile,
      [exists |-> TRUE, valid |-> FALSE, data |-> NoTokens],
      token_file_of(NullTokens),
      token_file_of(NumberTokens),
      token_file_of(EmptyTokenArray),
      token_file_of(TokenNameArray),
      token_file_of(TokenNameString),
      token_file_of(NoTokens),
      token_file_of([type |-> "object", keys |-> {"access_token"},
                     access_token |-> NONE, person_urn |-> NONE]),
      token_file_of([type |-> "object", keys |-> {"person_urn"}, access_token |-> NONE,
                     person_urn |-> "urn:li:person:file"]),
      token_file_of([type |-> "object", keys |-> {"access_token"},
                     access_token |-> "file_token", person_urn |-> NONE]),
      token_file_of([type |-> "object", keys |-> {"access_token", "person_urn"},
                     access_token |-> "file_token",
                     person_urn |-> "urn:li:person:file"]) }

\* An entry written by an earlier run, the i-th oldest of the stored ones.
stored_entry(i) ==
    [date |-> i, topic |-> "Kotlin", post_preview |-> << "o", "l", "d", ".", ".", "." >>,
     post_id |-> "urn:li:share:old"]

\* A writable history file holding the given value.
history_file_of(value) ==
    [exists |-> TRUE, valid |-> TRUE, writable |-> TRUE, data |-> value]

stored_history(n) ==
    history_file_of([type |-> "object", keys |-> {"posts"},
                     posts |-> [i \in 1..n |-> stored_entry(i)],
                     posts_is_list |-> TRUE])

NoHistoryFile ==
    [exists |-> FALSE, valid |-> FALSE, writable |-> TRUE, data |-> EmptyHistory]

\* post_history.json cut short by a crash in mid-write: no valid JSON.
truncated_history ==
    [exists |-> TRUE, valid |-> FALSE, writable |-> TRUE, data |-> EmptyHistory]

\* post_history.json holding [].
array_history ==
    history_file_of([type |-> "array", keys |-> {}, posts |-> << >>,
                     posts_is_list |-> FALSE])

\* post_history.json holding {"posts": null}.
null_posts_history ==
    history_file_of([type |-> "object", keys |-> {"posts"}, posts |-> << >>,
                     posts_is_list |-> FALSE])

\* A stored history of one entry that cannot be opened for writing.
read_only_history == [stored_history(1) EXCEPT !.writable = FALSE]

\* Histories on which save_to_history raises.
UnusableHistories ==
    { truncated_history, array_history, null_posts_history, read_only_history }

\* The clock when the program starts: later than every stored entry.
StartTime == 1000

\* Histories found by a run of main.
RunHistories ==
    { NoHistoryFile, stored_history(1), stored_history(HISTORY_KEEP) }
    \cup UnusableHistories

feed_item(title) == [has_title |-> TRUE, title |-> title]

untitled_item == [has_title |-> FALSE, title |-> ""]

feed(items) == [raised |-> FALSE, status |-> 200, items |-> items]

feed_error == [raised |-> TRUE, status |-> 0, items |-> << >>]

feed_unavailable == [raised |-> FALSE, status |-> 503, items |-> << feed_item("Kotlin") >>]

feed_blank == feed(<< feed_item(""), untitled_item >>)

feed_kotlin == feed(<< feed_item("Kotlin"), feed_item("kotlin"), feed_item("Compose") >>)

feed_tools ==
    feed(<< feed_item("android"), feed_item("gradle"), feed_item("ktor"),
            feed_item("room") >>)

feed_compose == feed(<< feed_item("compose"), feed_item("navigation") >>)

\* Responses of the three feed requests of a run of main: exceptions (timeout,
\* bad XML), statuses other than 200, feeds without entries, entries without a
\* title, repeated titles, and more entries than are read.
FeedScenarios ==
    { << feed_error, feed_error, feed_error >>,
      << feed_unavailable, feed(<< >>), feed_error >>,
      << feed(<< >>), feed(<< >>), feed(<< >>) >>,
      << feed_blank, feed_blank, feed(<< >>) >>,
      << feed_kotlin, feed_error, feed_blank >>,
      << feed_kotlin, feed_tools, feed_compose >>,
      << feed_compose, feed_kotlin, feed_unavailable >>,
      << feed_tools, feed_tools, feed_tools >> }

NoLLMResponse == [status |-> 0, content |-> << >>]

SelectContents ==
    { << J_FULL >>,
      << FENCE, "json", "\n", J_FULL, "\n", FENCE >>,
      << " ", FENCE, "\n", J_FULL, "\n", FENCE, "\n" >>,
      << J_FULL, "\n", "Hope this helps" >>,
      << "not json" >>,
      << >>,
      << J_STRING >>,
      << J_ARRAY >>,
      << J_NO_ANGLE >>,
      << J_NO_TYPE >>,
      << J_NUM_TOPIC >> }

LLMErrors == { [status |-> 500, content |-> << >>], [status |-> 429, content |-> << >>] }

SelectResponses == { [status |-> 200, content |-> c] : c \in SelectContents } \cup LLMErrors

\* A post longer than the preview kept in the history.
LongPost == [i \in 1..(PREVIEW_LEN + 1) |-> "x"]

GenerateContents ==
    { << "H", "i", "!" >>,
      << "\n", QUOTE, "H", "i", QUOTE, " " >>,
      << QUOTE, "H", "i" >>,
      << QUOTE >>,
      LongPost }

GenerateResponses ==
    { [status |-> 200, content |-> c] : c \in GenerateContents } \cup LLMErrors

UserinfoResponses ==
    { [status |-> 200, has_sub |-> TRUE, sub |-> "abc123"],
      [status |-> 200, has_sub |-> FALSE, sub |-> NONE],
      [status |-> 401, has_sub |-> FALSE, sub |-> NONE] }

PublishResponses ==
    { [status |-> 201, has_restli_id |-> TRUE, restli_id |-> "urn:li:share:123",
       text |-> ""],
      [status |-> 201, has_restli_id |-> FALSE, restli_id |-> NONE, text |-> ""],
      [status |-> 200, has_restli_id |-> TRUE, restli_id |-> "urn:li:share:123",
       text |-> "{}"],
      [status |-> 422, has_restli_id |-> FALSE, restli_id |-> NONE,
       text |-> "{\"message\":\"bad request\"}"] }

-----------------------------------------------------------------------------
(* main *)

\* State of a process that has not run anything yet.
Fresh ==
    /\ outcome = "running"
    /\ now = StartTime
    /\ all_results = << >>
    /\ unique_results = << >>
    /\ topics = << >>
    /\ select_response = NoLLMResponse
    /\ topic_data = NoDecision
    /\ generate_response = NoLLMResponse
    /\ post_content = << >>
    /\ userinfo_response = NoUserinfoResponse
    /\ post_data = NoPostData
    /\ publish_response = NoPublishResponse
    /\ result = NoResult
    /\ calls = << >>
    /\ history_writes = 0
    /\ appended = << >>
    /\ initial_history = history_file

Init ==
    /\ pc = "main"
    /\ dry_run \in BOOLEAN
    /\ GROQ_API_KEY \in ApiKeys
    /\ env_access_token \in EnvAccessTokens
    /\ env_person_urn \in EnvPersonUrns
    /\ token_file \in TokenFiles
    /\ history_file \in RunHistories
    /\ Fresh

\* The two checks at the top of main (lines 458-469), on the API key and the
\* outcome of load_linkedin_tokens: how the run goes on.  The tokens are loaded
\* outside main's try block, so an exception there leaves main uncaught.
validate(api_key, loaded) ==
    IF Falsy(api_key) THEN "no_api_key"
    ELSE IF loaded.raised \/ tokens_test_raises(loaded.value) THEN "crashed"
    ELSE IF tokens_missing(loaded.value) THEN "no_tokens"
    ELSE "running"

ValidateCredentials ==
    /\ pc = "main"
    /\ LET verdict == validate(GROQ_API_KEY,
                               load_linkedin_tokens(env_access_token, env_person_urn,
                                                    token_file))
       IN  /\ outcome' = verdict
           /\ pc' = IF verdict = "running" THEN "search" ELSE "done"
    /\ UNCHANGED << dry_run, GROQ_API_KEY, env_access_token, env_person_urn,
                    token_file, history_file, now, all_results, unique_results,
                    topics, select_response, topic_data, generate_response,
                    post_content, userinfo_response, post_data, publish_response,
                    result, calls, history_writes, initial_history, appended >>

\* One "search" request per query, whatever its response.
search_requests == [i \in 1..QUERIES_USED |-> "search"]

\* search_trending_topics() on the feeds' responses, and main's test of its result.
SearchWith(feeds) ==
    LET found == search_trending_topics(feeds)
    IN  /\ all_results' = found.all_results
        /\ unique_results' = found.unique_results
        /\ topics' = found.topics
        /\ calls' = calls \o search_requests
        /\ IF found.topics = << >>
           THEN pc' = "done" /\ outcome' = "no_topics"
           ELSE pc' = "pick" /\ UNCHANGED outcome
        /\ UNCHANGED << dry_run, GROQ_API_KEY, env_access_token, env_person_urn,
                        token_file, history_file, now, select_response, topic_data,
                        generate_response, post_content, userinfo_response, post_data,
                        publish_response, result, history_writes, initial_history,
                        appended >>

SearchTrendingTopics ==
    /\ pc = "search"
    /\ \E feeds \in FeedScenarios : SearchWith(feeds)

PickBestTopic ==
    /\ pc = "pick"
    /\ \E response \in SelectResponses :
         LET picked == pick_best_topic(topics, response)
         IN  /\ select_response' = response
             /\ calls' = Append(calls, "llm_select")
             /\ topic_data' = picked.value
             /\ IF picked.raised
                THEN pc' = "done" /\ outcome' = "exception"
                ELSE pc' = "generate" /\ UNCHANGED outcome
    /\ UNCHANGED << dry_run, GROQ_API_KEY, env_access_token, env_person_urn,
                    token_file, history_file, now, all_results, unique_results,
                    topics, generate_response, post_content, userinfo_response,
                    post_data, publish_response, result, history_writes,
                    initial_history, appended >>

after_generate_ignore_flag(dry) == "publish"

\* if dry_run: print the post and stop; else: publish.
after_generate(dry) == IF dry THEN "done" ELSE "publish"

GeneratePost ==
    /\ pc = "generate"
    /\ \E response \in GenerateResponses :
         LET generated == generate_post(topic_data, response)
         IN  /\ generate_response' = IF generated.called THEN response ELSE NoLLMResponse
             /\ calls' = IF generated.called THEN Append(calls, "llm_generate") ELSE calls
             /\ post_content' = generated.content
             /\ IF generated.raised
                THEN pc' = "done" /\ outcome' = "exception"
                ELSE /\ pc' = after_generate(dry_run)
                     /\ outcome' = IF pc' = "done" THEN "dry_run" ELSE outcome
    /\ UNCHANGED << dry_run, GROQ_API_KEY, env_access_token, env_person_urn,
                    token_file, history_file, now, all_results, unique_results,
                    topics, select_response, topic_data, userinfo_response, post_data,
                    publish_response, result, history_writes, initial_history,
                    appended >>

after_publish_always_save(publish_outcome) == "save"

\* if result["success"]: save_to_history(...); else: report the failure.
after_publish(publish_outcome) == IF publish_outcome.success THEN "save" ELSE "done"

PostToLinkedIn ==
    /\ pc = "publish"
    /\ \E userinfo \in UserinfoResponses, publish \in PublishResponses :
         LET posted == post_to_linkedin(post_content,
                                        load_linkedin_tokens(env_access_token,
                                                             env_person_urn, token_file),
                                        userinfo, publish)
         IN  /\ userinfo_response' = posted.userinfo
             /\ post_data' = posted.post_data
             /\ publish_response' = posted.publish
             /\ result' = posted.result
             /\ calls' = calls \o posted.requests
             /\ IF posted.raised
                THEN pc' = "done" /\ outcome' = "exception"
                ELSE /\ pc' = after_publish(posted.result)
                     /\ outcome' = IF pc' = "done" THEN "post_failed" ELSE outcome
    /\ UNCHANGED << dry_run, GROQ_API_KEY, env_access_token, env_person_urn,
                    token_file, history_file, now, all_results, unique_results,
                    topics, select_response, topic_data, generate_response,
                    post_content, history_writes, initial_history, appended >>

\* One call of save_to_history: the file is rewritten and the clock moves on,
\* unless the call raises.
SaveWith(topic, content, post_id) ==
    LET saved == save_to_history(history_file, topic, content, post_id, now)
    IN  /\ history_file' = saved.file
        /\ appended' = IF saved.raised THEN appended
                       ELSE Append(appended, history_entry(topic, content, post_id, now))
        /\ history_writes' = IF saved.raised THEN history_writes ELSE history_writes + 1
        /\ now' = IF saved.raised THEN now ELSE now + 1

\* The success branch of main: save_to_history, then the success banner; an
\* exception raised by save_to_history is caught by main's except.
SaveToHistory ==
    /\ pc = "save"
    /\ SaveWith(topic_data.selected_topic, post_content,
                IF result.post_id = NONE THEN "unknown" ELSE result.post_id)
    /\ pc' = "done"
    /\ outcome' = IF history_writes' = history_writes THEN "exception" ELSE "success"
    /\ UNCHANGED << dry_run, GROQ_API_KEY, env_access_token, env_person_urn,
                    token_file, all_results, unique_results, topics, select_response,
                    topic_data, generate_response, post_content, userinfo_response,
                    post_data, publish_response, result, calls, initial_history >>

Next ==
    \/ ValidateCredentials
    \/ SearchTrendingTopics
    \/ PickBestTopic
    \/ GeneratePost
    \/ PostToLinkedIn
    \/ SaveToHistory

Spec == Init /\ [][Next]_vars

-----------------------------------------------------------------------------
(* search_trending_topics alone, on arbitrary raw results *)

\* Longest sequence of raw results tried (at most QUERIES_USED * ITEMS_PER_QUERY).
MaxRaw == 6

\* A headline that only the i-th raw result carries.
own_title(i) ==
    CASE i = 1 -> "android" [] i = 2 -> "gradle" [] i = 3 -> "ktor"
      [] i = 4 -> "room" [] i = 5 -> "navigation" [] i = 6 -> "coroutines"
      [] i = 7 -> "hilt" [] i = 8 -> "wear" [] i = 9 -> "ksp"

\* Titles of the i-th raw result: empty, a headline of its own, or a headline
\* that recurs in two spellings.
PositionTitles(i) == {"", "Kotlin", "kotlin", own_title(i)}

RECURSIVE TitleSeqs(_)
TitleSeqs(n) ==
    IF n = 0 THEN { << >> }
    ELSE { Append(titles, t) : titles \in TitleSeqs(n - 1), t \in PositionTitles(n) }

RawTitleSeqs == UNION { TitleSeqs(n) : n \in 0..MaxRaw }

\* The feeds that deliver the given titles, ITEMS_PER_QUERY per query.
feeds_of(titles) ==
    [q \in 1..QUERIES_USED |->
        feed([k \in 1..Min(ITEMS_PER_QUERY,
                           IF Len(titles) > ITEMS_PER_QUERY * (q - 1)
                           THEN Len(titles) - ITEMS_PER_QUERY * (q - 1) ELSE 0)
                 |-> feed_item(titles[ITEMS_PER_QUERY * (q - 1) + k])])]

InitSearch ==
    /\ pc = "search"
    /\ dry_run = TRUE
    /\ GROQ_API_KEY = "gsk_key"
    /\ env_access_token = "env_token"
    /\ env_person_urn = "urn:li:person:env"
    /\ token_file = NoTokenFile
    /\ history_file = NoHistoryFile
    /\ Fresh

SearchAnyResults ==
    /\ pc = "search"
    /\ \E titles \in RawTitleSeqs : SearchWith(feeds_of(titles))

SpecSearch == InitSearch /\ [][SearchAnyResults]_vars

-----------------------------------------------------------------------------
(* save_to_history alone, called repeatedly *)

\* Number of save_to_history calls tried.
MaxAppends == 3

StoredHistories ==
    { NoHistoryFile, history_file_of(EmptyHistory), stored_history(1),
      stored_history(HISTORY_KEEP - 1), stored_history(HISTORY_KEEP),
      stored_history(HISTORY_KEEP + 2) }
    \cup UnusableHistories

InitHistory ==
    /\ pc = "history"
    /\ dry_run = FALSE
    /\ GROQ_API_KEY = "gsk_key"
    /\ env_access_token = "env_token"
    /\ env_person_urn = "urn:li:person:env"
    /\ token_file = NoTokenFile
    /\ history_file \in StoredHistories
    /\ Fresh

SaveAnyPost ==
    /\ pc = "history"
    /\ Len(appended) < MaxAppends
    /\ \E topic \in {"Kotlin", "Compose"},
          content \in { << "H", "i", "!" >>, LongPost },
          post_id \in {"urn:li:share:123", "Unknown"} :
          SaveWith(topic, content, post_id)
    /\ UNCHANGED << pc, outcome, dry_run, GROQ_API_KEY, env_access_token,
                    env_person_urn, token_file, all_results, unique_results, topics,
                    select_response, topic_data, generate_response, post_content,
                    userinfo_response, post_data, publish_response, result, calls,
                    initial_history >>

SpecHistory == InitHistory /\ [][SaveAnyPost]_vars

-----------------------------------------------------------------------------
(* Properties *)

Issued(request) == \E i \in DOMAIN calls : calls[i] = request

TimesIssued(request) == Cardinality({ i \in DOMAIN calls : calls[i] = request })

IsPrefix(a, b) == Len(a) <= Len(b) /\ \A i \in DOMAIN a : a[i] = b[i]

HistoryUntouched == history_writes = 0 /\ history_file = initial_history

\* The list of posts a history file holds, empty when it holds none.
posts_in(file) ==
    IF file.exists /\ file.valid /\ file.data.type = "object"
       /\ "posts" \in file.data.keys /\ file.data.posts_is_list
    THEN file.data.posts
    ELSE << >>

\* Posts stored when the program started.
InitialPosts == posts_in(initial_history)

StoredPosts == posts_in(history_file)

\* A history that save_to_history can extend: no file yet, or a JSON object
\* whose "posts", if present, is a list; and the file can be written.
HistoryUsable(file) ==
    /\ file.writable
    /\ file.exists =>
          /\ file.valid
          /\ file.data.type = "object"
          /\ "posts" \in file.data.keys => file.data.posts_is_list

\* The actor URN main's tokens carry, None when they carry none.
KnownUrn ==
    LET tokens == load_linkedin_tokens(env_access_token, env_person_urn, token_file).value
    IN  IF "person_urn" \in tokens.keys THEN tokens.person_urn ELSE NONE

\* C1: in a dry run the identity lookup and the publish request are never
\* issued and the history file is never written: it stays as the run found it.
C1_DryRunHasNoSideEffects ==
    dry_run =>
        /\ ~Issued("userinfo")
        /\ ~Issued("ugcPosts")
        /\ HistoryUntouched

\* A dry run that generated the quoted post and ended after printing it unquoted.
C1_Witness ==
    /\ dry_run
    /\ pc = "done"
    /\ outcome = "dry_run"
    /\ Issued("llm_generate")
    /\ generate_response.content = << "\n", QUOTE, "H", "i", QUOTE, " " >>
    /\ post_content = << "H", "i" >>

\* A reply that is not valid JSON, or no JSON object with the four TopicDecision
\* fields, once the fences are removed.
Malformed(content) ==
    LET parsed == json_loads(clean_response(content))
    IN  \/ ~parsed.ok
        \/ parsed.type # "object"
        \/ ~(DecisionKeys \subseteq parsed.dict.keys)

\* C2: after a malformed selection reply (HTTP 200) the decision is the default
\* one (first candidate's title, post_type trend_analysis) and the run goes on to
\* the generation stage.
C2_MalformedReplyFallsBack ==
    (select_response.status = 200 /\ Malformed(select_response.content)) =>
        /\ topic_data.selected_topic = topics[1].title
        /\ topic_data.post_type = "trend_analysis"
        /\ pc = "generate" \/ Issued("llm_generate")

\* C3 as claimed: in a run that is not a dry run the history file is written
\* exactly when the publish endpoint answered 201: at most one write, only after
\* a success result; a run that ended without one left the history as it found
\* it, and a run that ended with one appended exactly one entry, the published
\* post's.
C3_HistoryWrittenIffPublished ==
    ~dry_run =>
        /\ history_writes <= 1
        /\ result.success <=> (Issued("ugcPosts") /\ publish_response.status = 201)
        /\ history_writes = 1 => result.success
        /\ (pc = "done" /\ ~result.success) => HistoryUntouched
        /\ (pc = "done" /\ result.success) =>
              /\ history_writes = 1
              /\ Len(appended) = 1
              /\ StoredPosts # << >>
              /\ StoredPosts[Len(StoredPosts)] = appended[1]
              /\ appended[1].topic = topic_data.selected_topic
              /\ appended[1].post_id = result.post_id

\* C3 as amended: in a run that is not a dry run the history file is written at
\* most once and only after the publish endpoint answered 201; a run that ended
\* without a success result left the history as it found it; a run that ended
\* with one appended exactly one entry, the published post's, when the stored
\* history was usable, and otherwise ended in main's except with the history as
\* it found it.
C3_HistoryWrittenOnlyAfterPublish ==
    ~dry_run =>
        /\ history_writes <= 1
        /\ result.success <=> (Issued("ugcPosts") /\ publish_response.status = 201)
        /\ history_writes = 1 => (result.success /\ HistoryUsable(initial_history))
        /\ (pc = "done" /\ ~result.success) => HistoryUntouched
        /\ (pc = "done" /\ result.success /\ HistoryUsable(initial_history)) =>
              /\ outcome = "success"
              /\ history_writes = 1
              /\ Len(appended) = 1
              /\ StoredPosts # << >>
              /\ StoredPosts[Len(StoredPosts)] = appended[1]
              /\ Len(StoredPosts) = (IF Len(InitialPosts) < HISTORY_KEEP
                                     THEN Len(InitialPosts) + 1 ELSE HISTORY_KEEP)
              /\ appended[1].topic = topic_data.selected_topic
              /\ appended[1].post_id = result.post_id
        /\ (pc = "done" /\ result.success /\ ~HistoryUsable(initial_history)) =>
              /\ outcome = "exception"
              /\ HistoryUntouched
              /\ appended = << >>

\* A published run that ended after appending its entry to a full history.
C3_Witness ==
    /\ ~dry_run
    /\ pc = "done"
    /\ publish_response.status = 201
    /\ history_writes = 1
    /\ Len(InitialPosts) = HISTORY_KEEP
    /\ StoredPosts[Len(StoredPosts)] = appended[1]

\* C4: after any sequence of save_to_history calls the stored posts are at most
\* 50, they are the most recent entries of (stored at start, then appended) in
\* that order, and the entry just appended is last.
C4_HistoryKeepsMostRecent ==
    appended # << >> =>
        LET all_posts == InitialPosts \o appended
            kept == IF Len(all_posts) < 50 THEN Len(all_posts) ELSE 50
        IN  /\ Len(StoredPosts) <= 50
            /\ Len(StoredPosts) = kept
            /\ \A i \in 1..kept : StoredPosts[i] = all_posts[Len(all_posts) - kept + i]
            /\ StoredPosts[Len(StoredPosts)] = appended[Len(appended)]

\* One entry appended to a history of 50: the oldest is gone, the new one is last.
C4_Witness ==
    /\ Len(InitialPosts) = 50
    /\ Len(appended) = 1
    /\ Len(StoredPosts) = 50
    /\ StoredPosts = Tail(InitialPosts) \o appended
    /\ StoredPosts[1] = stored_entry(2)

\* Index of the first raw result whose lower-cased title is that of t.
FirstIndex(t) ==
    CHOOSE i \in DOMAIN all_results :
        /\ lower(all_results[i].title) = lower(t)
        /\ \A j \in 1..(i - 1) : lower(all_results[j].title) # lower(t)

\* Distinct non-empty lower-cased titles among the raw results.
DistinctTitles == { lower(all_results[i].title) : i \in DOMAIN all_results } \ {""}

\* C5: when some raw result has a non-empty title, the returned candidates hold
\* each distinct lower-cased title at most once, no empty title, are the first
\* occurrences of their titles in input order with none skipped, and are at
\* most 5.
C5_CandidatesUniqueOrderedBounded ==
    (Issued("search") /\ DistinctTitles # {}) =>
        /\ Len(topics) <= 5
        /\ Len(topics) = (IF Cardinality(DistinctTitles) < 5
                          THEN Cardinality(DistinctTitles) ELSE 5)
        /\ \A i \in DOMAIN topics : topics[i].title # ""
        /\ \A i, j \in DOMAIN topics :
              i # j => lower(topics[i].title) # lower(topics[j].title)
        /\ \A i \in DOMAIN topics :
              /\ lower(topics[i].title) \in DistinctTitles
              /\ topics[i] = all_results[FirstIndex(topics[i].title)]
        /\ \A i, j \in DOMAIN topics :
              i < j => FirstIndex(topics[i].title) < FirstIndex(topics[j].title)
        /\ \A t \in DistinctTitles :
              (\E i \in DOMAIN topics : FirstIndex(t) < FirstIndex(topics[i].title))
                 => \E k \in DOMAIN topics : lower(topics[k].title) = t

\* Six raw results, among them an empty title and both spellings of a repeated
\* one: the first spelling is kept, the second and the empty title are dropped.
C5_Witness ==
    /\ pc # "search"
    /\ Len(all_results) = 6
    /\ all_results[1].title = "Kotlin"
    /\ all_results[2].title = ""
    /\ all_results[4].title = "kotlin"
    /\ Len(topics) = 4
    /\ topics[1].title = "Kotlin"

\* More than five distinct titles found: only the first five are returned.
C5_Truncated ==
    /\ pc # "search"
    /\ Cardinality(DistinctTitles) > 5
    /\ Len(topics) = 5

\* C6: when the filtered results are empty the stage returns exactly the 5
\* fallback records in their order; the list handed to the selector has between
\* 1 and 5 items.
C6_FallbackWhenEmpty ==
    Issued("search") =>
        /\ unique_results = << >> =>
              /\ topics = get_fallback_topics
              /\ Len(topics) = 5
              /\ topics[1].title = "Kotlin 2.0 and the future of Android development"
              /\ topics[5].title = "Modern Android app architecture with MVI pattern"
        /\ Len(topics) >= 1
        /\ Len(topics) <= 5

\* Every raw result had an empty title, and the selector was handed the fallback.
C6_Witness ==
    /\ pc = "pick"
    /\ all_results # << >>
    /\ \A i \in DOMAIN all_results : all_results[i].title = ""
    /\ unique_results = << >>
    /\ topics = get_fallback_topics

\* The token file is a JSON object that holds an access token.
FileHoldsAccessToken ==
    /\ token_file.exists
    /\ token_file.valid
    /\ token_file.data.type = "object"
    /\ "access_token" \in token_file.data.keys
    /\ token_file.data.access_token # NONE

\* No LLM API key, or no access token in the environment and none in the token
\* file.
CredentialsMissing ==
    \/ Falsy(GROQ_API_KEY)
    \/ /\ Falsy(env_access_token)
       /\ ~FileHoldsAccessToken

\* C7: with credentials missing no request of any kind is issued and the
\* history is not written.  The code falls short of it: the test of main passes
\* on a token file holding ["access_token"], "access_token" or
\* {"access_token": null}, and the run goes on to the search and LLM requests.
C7_MissingCredentialsAbortEarly ==
    CredentialsMissing =>
        /\ calls = << >>
        /\ HistoryUntouched
        /\ pc \in {"main", "done"}

\* C8: a status other than 200 from the LLM endpoint, in the selection or the
\* generation call, ends the run with an exception: no default decision, no
\* later LLM call, no identity lookup, no publish request, no history write.
C8_LLMFailureIsFatal ==
    /\ (select_response.status \notin {0, 200}) =>
          /\ pc = "done"
          /\ outcome = "exception"
          /\ topic_data = NoDecision
          /\ ~Issued("llm_generate")
          /\ ~Issued("userinfo")
          /\ ~Issued("ugcPosts")
          /\ HistoryUntouched
    /\ (generate_response.status \notin {0, 200}) =>
          /\ pc = "done"
          /\ outcome = "exception"
          /\ TimesIssued("llm_generate") = 1
          /\ ~Issued("userinfo")
          /\ ~Issued("ugcPosts")
          /\ HistoryUntouched

\* The selection call answered 500 in a run that would have published.
C8_Witness ==
    /\ ~dry_run
    /\ select_response.status = 500
    /\ calls = << "search", "search", "search", "llm_select" >>
    /\ pc = "done"

\* C9: once the publish endpoint has answered, success is true exactly for
\* status 201, with post_id the x-restli-id header's value; for any other status
\* success is false and error is the response body.
C9_PublishResultFollowsStatus ==
    Issued("ugcPosts") =>
        /\ result.success <=> publish_response.status = 201
        /\ (publish_response.status = 201 /\ publish_response.has_restli_id) =>
              result.post_id = publish_response.restli_id
        /\ publish_response.status # 201 =>
              /\ result.error = publish_response.text
              /\ result.post_id = NONE

\* The endpoint answered 201 with the header urn:li:share:123.
C9_Witness ==
    /\ Issued("ugcPosts")
    /\ publish_response.status = 201
    /\ publish_response.restli_id = "urn:li:share:123"
    /\ result = [success |-> TRUE, post_id |-> "urn:li:share:123", error |-> NONE]

FullRunWithLookup ==
    << "search", "search", "search", "llm_select", "llm_generate", "userinfo",
       "ugcPosts" >>

FullRunKnownUrn ==
    << "search", "search", "search", "llm_select", "llm_generate", "ugcPosts" >>

\* C10: the requests of a run are issued in the order search, selection,
\* generation, identity lookup (only when the actor URN is unknown), publish,
\* each at most once, each only after the stage before it succeeded; the history
\* is written last, after a successful publish.
C10_StagesInOrderOnce ==
    /\ IsPrefix(calls, FullRunWithLookup) \/ IsPrefix(calls, FullRunKnownUrn)
    /\ Issued("llm_select") => topics # << >>
    /\ Issued("llm_generate") => (select_response.status = 200 /\ topic_data # NoDecision)
    /\ Issued("userinfo") => (generate_response.status = 200 /\ Falsy(KnownUrn))
    /\ Issued("ugcPosts") =>
          /\ generate_response.status = 200
          /\ Falsy(KnownUrn) <=> Issued("userinfo")
          /\ Issued("userinfo") => userinfo_response.status = 200
          /\ post_data.text = post_content
    /\ (Issued("userinfo") /\ userinfo_response.status # 200) =>
          (~Issued("ugcPosts") /\ pc = "done")
    /\ history_writes <= 1
    /\ history_writes = 1 =>
          /\ Issued("ugcPosts")
          /\ publish_response.status = 201
          /\ pc = "done"

\* A complete run with an identity lookup, ended by the history write.
C10_Witness ==
    /\ calls = FullRunWithLookup
    /\ history_writes = 1
    /\ pc = "done"
    /\ outcome = "success"

====
